---- MODULE Spec2Model ----
(***************************************************************************)
(* A model of htmresearch/encoders/cio_encoder.py: the CioEncoder, which   *)
(* turns text into sparse bitmaps through the Cortical.io client and       *)
(* derives window encodings, scaled encodings and comparisons from them.   *)
(*                                                                         *)
(* Python floats are modelled as exact rationals <<num, den>>.  The grids  *)
(* of the model are small, and the scale factors are dyadic, so that the   *)
(* quotients the code computes in floating point are the exact ones.       *)
(***************************************************************************)
EXTENDS Integers, Sequences, FiniteSets, TLC

\* ------------------------------------------------------------- bounds

\* RETINA_SIZES[retina]["width"]: 128 in cortipy, scaled down for the model.
RetinaDim == 4

\* The longest token sequence (and text, in tokens) handed to the encoder.
MaxTokens == 3

\* The longest text, in tokens, handed to encode.
MaxTextTokens == 2

\* The most dicts the caller holds at once.
MaxRecords == 1

\* ------------------------------------------------------- Python values

\* A float as an exact rational <<num, den>>, den > 0.
RatLeq(a, b) == a[1] * b[2] <= b[1] * a[2]

RatLess(a, b) == a[1] * b[2] < b[1] * a[2]

RatEq(a, b) == a[1] * b[2] = b[1] * a[2]

RatAdd(a, b) == <<a[1] * b[2] + b[1] * a[2], a[2] * b[2]>>

Min(a, b) == IF a <= b THEN a ELSE b

Max(a, b) == IF a >= b THEN a ELSE b

\* The elements of a set of integers, in ascending order.
RECURSIVE SortedSeq(_)
SortedSeq(S) ==
  IF S = {} THEN <<>>
  ELSE LET m == CHOOSE x \in S : \A y \in S : x <= y
       IN  <<m>> \o SortedSeq(S \ {m})

Range(s) == {s[k] : k \in 1..Len(s)}

\* Sequences over S of length at most k.
SeqUpTo(S, k) == UNION {[1..m -> S] : m \in 0..k}

\* --------------------------------------------- the Cortical.io client

\* The terms of the model's vocabulary; a text is a sequence of them and
\* TextPreprocess().tokenize(text) splits it into its terms.
Terms == {"a", "b", "c", "e", "big", "q"}

Texts == SeqUpTo(Terms, MaxTextTokens) \ {<<>>}

tokenize(text) == text

\* The fingerprint the service holds for each term, as positions of the
\* unscaled retina; the service has none for "q".
TermPositions(term) ==
  CASE term = "a"   -> {0, 1}
    [] term = "b"   -> {1, 2, 5}
    [] term = "c"   -> {4, 5}
    [] term = "e"   -> {}
    [] term = "big" -> {3, 6, 7, 8, 9, 10}
    [] OTHER        -> {}

Encodable(term) == term # "q"

\* The dict the client returns for a bitmap of the unscaled retina; of its
\* keys the model keeps the ones the encoder reads or writes.
ClientDict(positions) ==
  [sparsity  |-> <<Cardinality(positions), RetinaDim * RetinaDim>>,
   width     |-> RetinaDim,
   height    |-> RetinaDim,
   positions |-> positions]

NoDict == [sparsity |-> <<0, 1>>, width |-> 0, height |-> 0, positions |-> {}]

\* client.getBitmap(term) for one term: UnsuccessfulEncodingError when the
\* service cannot encode it.
getBitmap(term) ==
  IF Encodable(term)
  THEN [err |-> "none", dict |-> ClientDict(TermPositions(term))]
  ELSE [err |-> "UnsuccessfulEncodingError", dict |-> NoDict]

\* What the service may answer for a whole text (client.getTextBitmap(text),
\* or client.getBitmap(text) when the text is not one term of the
\* vocabulary): no encoding, or the fingerprint of the text.
TextResponses(text) ==
  {[err |-> "UnsuccessfulEncodingError", dict |-> NoDict],
   [err |-> "none",
    dict |-> ClientDict(UNION {TermPositions(text[k]) : k \in 1..Len(text)})]}

\* ------------------------------------------------------- construction

EncoderTypes == {"document", "word", "generic"}

\* retinaScaling values offered to the constructor, as rationals (1.0 is
\* the default).
ScaleFactors == <<<<1, 1>>, <<1, 2>>, <<1, 4>>, <<0, 1>>, <<-1, 2>>, <<3, 2>>>>

\* unionSparsity values offered to the constructor (0.20 is the default).
UnionSparsities == {<<1, 5>>, <<5, 16>>}

NoEncoder ==
  [constructed |-> FALSE, retinaScaling |-> <<1, 1>>, width |-> 0,
   height |-> 0, n |-> 0, fingerprintType |-> "document",
   unionSparsity |-> <<1, 5>>]

\* int(x) of a non-negative rational.
IntOf(r) == r[1] \div r[2]

_setDimensions(scalingFactor) ==
  IF RatLess(scalingFactor, <<0, 1>>) \/ RatLess(<<1, 1>>, scalingFactor)
  THEN [err |-> "ValueError", retinaScaling |-> scalingFactor,
        width |-> 0, height |-> 0, n |-> 0]
  ELSE LET w == IntOf(<<RetinaDim * scalingFactor[1], scalingFactor[2]>>)
       IN  [err |-> "none", retinaScaling |-> scalingFactor,
            width |-> w, height |-> w, n |-> w * w]

VARIABLES
  self,   \* the encoder's fields
  heap,   \* the encoding dicts the caller holds; a reference is an index
  call    \* the last call made: its arguments and its outcome

vars == <<self, heap, call>>

Init ==
  /\ self = NoEncoder
  /\ heap = <<>>
  /\ call = [op |-> "none"]

Idle == call.op = "none"

\* CioEncoder(retinaScaling, fingerprintType, unionSparsity, apiKey).
__init__ ==
  /\ Idle
  /\ ~self.constructed
  /\ \E k \in DOMAIN ScaleFactors, fingerprintType \in EncoderTypes,
        unionSparsity \in UnionSparsities, haveKey \in BOOLEAN :
       LET retinaScaling == ScaleFactors[k]
           dims == _setDimensions(retinaScaling)
           err  == IF ~haveKey THEN "OSError" ELSE dims.err
       IN  /\ self' = IF err # "none" THEN self
                      ELSE [constructed     |-> TRUE,
                            retinaScaling   |-> dims.retinaScaling,
                            width           |-> dims.width,
                            height          |-> dims.height,
                            n               |-> dims.n,
                            fingerprintType |-> fingerprintType,
                            unionSparsity   |-> unionSparsity]
           /\ call' = [op |-> "__init__", err |-> err,
                       retinaScaling |-> retinaScaling]
           /\ UNCHANGED heap

\* ------------------------------------------------- getWindowEncoding

\* minSparsity values offered to getWindowEncoding (0.0 is the default).
MinSparsities == {<<0, 1>>, <<1, 8>>}

TokenSeqs == SeqUpTo(Terms, MaxTokens)

\* self.client.getBitmap(term)["fingerprint"]["positions"]
_getWordBitmap(term) ==
  LET r == getBitmap(term)
  IN  [err |-> r.err, positions |-> r.dict.positions]

\* A variant of the stopping criterion that measures the merged union
\* instead of summing the two sparsities.
StopWalkMerged(windowBitmap, nextBitmap, n, unionSparsity) ==
  RatLess(unionSparsity, <<Cardinality(windowBitmap \cup nextBitmap), n>>)

\* A variant of the stopping criterion that forgets the window's sparsity.
StopWalkNextOnly(windowBitmap, nextBitmap, n, unionSparsity) ==
  RatLess(unionSparsity, <<Cardinality(nextBitmap), n>>)

\* The stopping criterion of the backward walk (lines 193-195):
\* windowSparsity + nextSparsity > self.unionSparsity.
StopWalk(windowBitmap, nextBitmap, n, unionSparsity) ==
  RatLess(unionSparsity,
          RatAdd(<<Cardinality(windowBitmap), n>>,
                 <<Cardinality(nextBitmap), n>>))

\* The inner loop, for j in reversed(xrange(i)), about to test index j
\* (0-based; bitmaps[j + 1] is the code's bitmaps[j]).  It yields the
\* window, the value j is left with, and the indices whose bitmaps were
\* merged.
RECURSIVE Walk(_, _, _, _, _, _)
Walk(bitmaps, j, windowBitmap, merged, n, unionSparsity) ==
  IF j < 0
  THEN [bitmap |-> windowBitmap, j |-> 0, merged |-> merged]
  ELSE IF StopWalk(windowBitmap, bitmaps[j + 1], n, unionSparsity)
       THEN [bitmap |-> windowBitmap, j |-> j, merged |-> merged]
       ELSE Walk(bitmaps, j - 1, windowBitmap \cup bitmaps[j + 1],
                 merged \cup {j}, n, unionSparsity)

\* The slice tokens[j:i+1] of line 206, 0-based and end-exclusive.
Slice(tokens, j, i) == SubSeq(tokens, j + 1, i + 1)

\* The window of token i (0-based), lines 190-202.
WindowOf(bitmaps, tokens, i, n, unionSparsity) ==
  LET w == Walk(bitmaps, i - 1, bitmaps[i + 1], {}, n, unionSparsity)
  IN  [i        |-> i,
       j        |-> w.j,
       merged   |-> w.merged,
       text     |-> Slice(tokens, w.j, i),
       sparsity |-> <<Cardinality(w.bitmap), n>>,
       bitmap   |-> w.bitmap]

\* The entry appended for a window, lines 205-208.
Entry(w) == [text |-> w.text, sparsity |-> w.sparsity, bitmap |-> w.bitmap]

\* A variant of the filter that lets a window of exactly minSparsity in.
DenseOrEqual(w, minSparsity) == RatLeq(minSparsity, w.sparsity)

\* The filter of line 203.
Dense(w, minSparsity) == RatLess(minSparsity, w.sparsity)

RECURSIVE Emitted(_, _)
Emitted(windows, minSparsity) ==
  IF windows = <<>> THEN <<>>
  ELSE LET rest == Emitted(Tail(windows), minSparsity)
       IN  IF Dense(Head(windows), minSparsity)
           THEN <<Entry(Head(windows))>> \o rest
           ELSE rest

\* getWindowEncoding(tokens, minSparsity): the list returned, and the walk
\* made for each token.  A token the service cannot encode raises in the
\* first loop; a grid of n = 0 raises at the first division.
getWindowEncoding(enc, tokens, minSparsity) ==
  LET words   == [k \in 1..Len(tokens) |-> _getWordBitmap(tokens[k])]
      bitmaps == [k \in 1..Len(tokens) |-> words[k].positions]
      windows == [k \in 1..Len(tokens) |->
                    WindowOf(bitmaps, tokens, k - 1, enc.n,
                             enc.unionSparsity)]
  IN  IF \E k \in 1..Len(tokens) : words[k].err # "none"
      THEN [err |-> "UnsuccessfulEncodingError", windowBitmaps |-> <<>>,
            windows |-> <<>>]
      ELSE IF tokens # <<>> /\ enc.n = 0
      THEN [err |-> "ZeroDivisionError", windowBitmaps |-> <<>>,
            windows |-> <<>>]
      ELSE [err |-> "none",
            windowBitmaps |-> Emitted(windows, minSparsity),
            windows |-> windows]

GetWindowEncoding ==
  /\ Idle
  /\ self.constructed
  /\ \E tokens \in TokenSeqs, minSparsity \in MinSparsities :
       LET r == getWindowEncoding(self, tokens, minSparsity)
       IN  call' = [op |-> "getWindowEncoding", err |-> r.err,
                    tokens |-> tokens, minSparsity |-> minSparsity,
                    windowBitmaps |-> r.windowBitmaps,
                    windows |-> r.windows]
  /\ UNCHANGED <<self, heap>>

\* ---------------------------------------------------- union encoding

\* int(self.unionSparsity * self.n), the most bits a union may hold.
MaxUnionBits(enc) ==
  IntOf(<<enc.unionSparsity[1] * enc.n, enc.unionSparsity[2]>>)

\* The w most common positions of a Counter: by descending count, ties by
\* ascending position.
RECURSIVE MostCommon(_, _, _)
MostCommon(counts, keys, w) ==
  IF w = 0 \/ keys = {} THEN {}
  ELSE LET top == CHOOSE p \in keys :
                    \A q \in keys :
                      \/ counts[p] > counts[q]
                      \/ counts[p] = counts[q] /\ p <= q
       IN  {top} \cup MostCommon(counts, keys \ {top}, w - 1)

\* LanguageEncoder.sparseUnion(counts): the most common positions, at most
\* floor(unionSparsity * n) of them.
sparseUnion(enc, counts) ==
  MostCommon(counts, DOMAIN counts,
             Min(Cardinality(DOMAIN counts), MaxUnionBits(enc)))

\* The Counter of lines 144-147: for each ON position, the number of
\* tokens whose bitmap holds it.
CountBits(bitmaps) ==
  [p \in UNION {bitmaps[k] : k \in 1..Len(bitmaps)} |->
     Cardinality({k \in 1..Len(bitmaps) : p \in bitmaps[k]})]

\* getUnionEncoding(text): the dict it builds.
getUnionEncoding(enc, text) ==
  LET tokens    == tokenize(text)
      words     == [k \in 1..Len(tokens) |-> _getWordBitmap(tokens[k])]
      bitmaps   == [k \in 1..Len(tokens) |-> words[k].positions]
      positions == sparseUnion(enc, CountBits(bitmaps))
  IN  IF \E k \in 1..Len(tokens) : words[k].err # "none"
      THEN [err |-> "UnsuccessfulEncodingError", dict |-> NoDict]
      ELSE IF enc.n = 0
      THEN [err |-> "ZeroDivisionError", dict |-> NoDict]
      ELSE [err  |-> "none",
            dict |-> [sparsity  |-> <<Cardinality(positions), enc.n>>,
                      width     |-> enc.width,
                      height    |-> enc.height,
                      positions |-> positions]]

\* ------------------------------------------------------ finishEncoding

\* A value clipped to lo..hi.
Clip(x, lo, hi) == Max(lo, Min(x, hi))

\* LanguageEncoder.scaleEncoding(positions, scaleFactor): each position of
\* the unscaled retina, as (row, col), scaled, floored, clipped to the new
\* grid and made a position of it.
scaleEncoding(positions, scaleFactor) ==
  IF ~RatLess(<<0, 1>>, scaleFactor) \/ RatLess(<<1, 1>>, scaleFactor)
  THEN [err |-> "ValueError", positions |-> {}]
  ELSE LET width  == IntOf(<<RetinaDim * scaleFactor[1], scaleFactor[2]>>)
           height == width
           Scaled(x) == IntOf(<<x * scaleFactor[1], scaleFactor[2]>>)
           NewPos(p) ==
             Clip(Scaled(p \div RetinaDim), 0, height - 1) * width
               + Clip(Scaled(p % RetinaDim), 0, width - 1)
       IN  [err |-> "none", positions |-> {NewPos(p) : p \in positions}]

None == 0

\* Line 228: the sparsity of a dict from its own positions and dimensions.
Sparsity(d) == <<Cardinality(d.positions), d.width * d.height>>

\* A variant of finishEncoding that fills a copy of the dict and returns
\* the copy.
finishEncodingCopy(h, enc, encoding) ==
  IF encoding = None THEN [err |-> "TypeError", ref |-> None, heap |-> h]
  ELSE
    LET scaling == ~RatEq(enc.retinaScaling, <<1, 1>>)
        sc      == scaleEncoding(h[encoding].positions, enc.retinaScaling)
        d1      == IF scaling
                   THEN [h[encoding] EXCEPT !.positions = sc.positions,
                                            !.width = enc.width,
                                            !.height = enc.height]
                   ELSE h[encoding]
    IN  IF scaling /\ sc.err # "none"
        THEN [err |-> sc.err, ref |-> None, heap |-> h]
        ELSE IF d1.width * d1.height = 0
        THEN [err |-> "ZeroDivisionError", ref |-> None, heap |-> h]
        ELSE [err  |-> "none",
              ref  |-> Len(h) + 1,
              heap |-> Append(h, [d1 EXCEPT !.sparsity = Sparsity(d1)])]

\* A variant of finishEncoding that computes the sparsity first and scales
\* afterwards.
finishEncodingSparsityFirst(h, enc, encoding) ==
  IF encoding = None THEN [err |-> "TypeError", ref |-> None, heap |-> h]
  ELSE
    LET scaling == ~RatEq(enc.retinaScaling, <<1, 1>>)
        d0      == h[encoding]
        sc      == scaleEncoding(d0.positions, enc.retinaScaling)
        d1      == [d0 EXCEPT !.sparsity = Sparsity(d0)]
        d2      == IF scaling
                   THEN [d1 EXCEPT !.positions = sc.positions,
                                   !.width = enc.width,
                                   !.height = enc.height]
                   ELSE d1
    IN  IF d0.width * d0.height = 0
        THEN [err |-> "ZeroDivisionError", ref |-> None, heap |-> h]
        ELSE IF scaling /\ sc.err # "none"
        THEN [err |-> sc.err, ref |-> None,
              heap |-> [h EXCEPT ![encoding] = d1]]
        ELSE [err |-> "none", ref |-> encoding,
              heap |-> [h EXCEPT ![encoding] = d2]]

\* finishEncoding(encoding), on the heap h: encoding is a reference to a
\* dict, or None.  The dict is written in place (lines 223-228) and the
\* reference passed in is returned; an exception leaves the writes made
\* before it.
finishEncoding(h, enc, encoding) ==
  IF encoding = None THEN [err |-> "TypeError", ref |-> None, heap |-> h]
  ELSE
    LET scaling == ~RatEq(enc.retinaScaling, <<1, 1>>)
        sc      == scaleEncoding(h[encoding].positions, enc.retinaScaling)
        d1      == IF scaling
                   THEN [h[encoding] EXCEPT !.positions = sc.positions,
                                            !.width = enc.width,
                                            !.height = enc.height]
                   ELSE h[encoding]
        h1      == [h EXCEPT ![encoding] = d1]
    IN  IF scaling /\ sc.err # "none"
        THEN [err |-> sc.err, ref |-> None, heap |-> h]
        ELSE IF d1.width * d1.height = 0
        THEN [err |-> "ZeroDivisionError", ref |-> None, heap |-> h1]
        ELSE [err  |-> "none",
              ref  |-> encoding,
              heap |-> [h1 EXCEPT ![encoding].sparsity = Sparsity(d1)]]

\* ---------------------------------------------------------- encode

\* _subEncoding(text), with its default method "keyword": the union
\* encoding of the text, or None when the client has none.
_subEncoding(enc, text) ==
  LET r == getUnionEncoding(enc, text)
  IN  IF r.err = "UnsuccessfulEncodingError"
      THEN [err |-> "none", isNone |-> TRUE, dict |-> NoDict]
      ELSE [err |-> r.err, isNone |-> FALSE, dict |-> r.dict]

\* The try block of encode (lines 113-121): the encoding of the configured
\* fingerprint type.  response is the service's answer for the whole text.
Primary(enc, text, response) ==
  IF enc.fingerprintType = "document" THEN response
  ELSE IF enc.fingerprintType = "word" THEN getUnionEncoding(enc, text)
  ELSE IF Len(text) = 1 THEN getBitmap(text[1])
  ELSE response

\* encode(text) on the heap h.  The dict obtained is a new object; it
\* stays on the heap when encode returns it.
encode(h, enc, text, response) ==
  LET primary  == Primary(enc, text, response)
      failed   == primary.err = "UnsuccessfulEncodingError"
      sub      == _subEncoding(enc, text)
      err      == IF failed THEN sub.err ELSE primary.err
      isNone   == failed /\ sub.isNone
      dict     == IF failed THEN sub.dict ELSE primary.dict
      h1       == IF isNone THEN h ELSE Append(h, dict)
      encoding == IF isNone THEN None ELSE Len(h) + 1
      fin      == finishEncoding(h1, enc, encoding)
      log      == [primaryFailed    |-> failed,
                   substituteFailed |-> isNone,
                   raw              |-> dict]
  IN  IF err # "none"
      THEN [err |-> err, ref |-> None, heap |-> h, log |-> log]
      ELSE IF fin.err # "none"
      THEN [err |-> fin.err, ref |-> None, heap |-> h, log |-> log]
      ELSE [err |-> "none", ref |-> fin.ref, heap |-> fin.heap, log |-> log]

\* encode(text) with a text that is a str.
Encode ==
  /\ Idle
  /\ self.constructed
  /\ Len(heap) < MaxRecords
  /\ \E text \in Texts :
       \E response \in TextResponses(text) :
         LET r == encode(heap, self, text, response)
         IN  /\ heap' = r.heap
             /\ call' = [op |-> "encode", err |-> r.err, text |-> text,
                         primaryFailed    |-> r.log.primaryFailed,
                         substituteFailed |-> r.log.substituteFailed,
                         raw |-> r.log.raw, result |-> r.ref]
  /\ UNCHANGED self

\* encode(text) with a text that is no str: lines 109-111.
EncodeNonString ==
  /\ Idle
  /\ self.constructed
  /\ call' = [op |-> "encode", err |-> "TypeError", text |-> <<>>,
              primaryFailed |-> FALSE, substituteFailed |-> FALSE,
              raw |-> NoDict, result |-> None]
  /\ UNCHANGED <<self, heap>>

\* The caller takes a dict from the client, self.client.getBitmap(term),
\* as finishEncoding expects one ("Dict as returned by the Cio client").
ClientGetBitmap ==
  /\ Idle
  /\ self.constructed
  /\ Len(heap) < MaxRecords
  /\ \E term \in Terms :
       LET r == getBitmap(term)
       IN  /\ heap' = IF r.err = "none" THEN Append(heap, r.dict) ELSE heap
           /\ call' = [op |-> "client.getBitmap", err |-> r.err,
                       term |-> term]
  /\ UNCHANGED self

\* finishEncoding(encoding) called by the holder of a dict (or of None).
FinishEncoding ==
  /\ Idle
  /\ self.constructed
  /\ \E encoding \in 0..Len(heap) :
       LET r == finishEncoding(heap, self, encoding)
       IN  /\ heap' = r.heap
           /\ call' = [op |-> "finishEncoding", err |-> r.err,
                       encoding |-> encoding,
                       before |-> IF encoding = None THEN NoDict
                                  ELSE heap[encoding],
                       result |-> r.ref]
  /\ UNCHANGED self

\* The caller takes the outcome of the call and is free to call again.
Return ==
  /\ ~Idle
  /\ call' = [op |-> "none"]
  /\ UNCHANGED <<self, heap>>

EncodeNext ==
  \/ __init__
  \/ Encode
  \/ EncodeNonString
  \/ ClientGetBitmap
  \/ FinishEncoding
  \/ Return

SpecEncode == Init /\ [][EncodeNext]_vars

WindowNext == __init__ \/ GetWindowEncoding \/ Return

SpecWindow == Init /\ [][WindowNext]_vars

\* ------------------------------------------- compare, createCategory

\* The Python values offered as bitmaps: lists, and values that are no
\* lists (tuples, None, numpy arrays), empty and not.
PyValues ==
  {[type |-> t, items |-> i] :
     t \in {"list", "tuple", "ndarray"}, i \in {<<>>, <<1, 2>>}}
    \cup {[type |-> "NoneType", items |-> <<>>]}

\* bool(v): an empty list or tuple and None are false; a numpy array of
\* more than one element has no truth value (ValueError).
Truth(v) ==
  IF v.type = "NoneType" THEN "false"
  ELSE IF v.type = "ndarray" /\ Len(v.items) > 1 THEN "error"
  ELSE IF v.type = "ndarray" /\ Len(v.items) = 1
       THEN (IF v.items[1] # 0 THEN "true" ELSE "false")
  ELSE IF Len(v.items) > 0 THEN "true" ELSE "false"

\* Python's (a and b): a when a is false, otherwise b.
PyAnd(a, b) ==
  IF Truth(a) = "error" THEN [err |-> "ValueError", value |-> a]
  ELSE IF Truth(a) = "false" THEN [err |-> "none", value |-> a]
  ELSE [err |-> "none", value |-> b]

\* The check of lines 316 and 335: isinstance(a and b, list).
CheckLists(a, b) ==
  LET v == PyAnd(a, b)
  IN  IF v.err # "none" THEN v.err
      ELSE IF v.value.type # "list" THEN "TypeError"
      ELSE "none"

\* compare(bitmap1, bitmap2): the client is called when the check passes.
compare(bitmap1, bitmap2) ==
  LET err == CheckLists(bitmap1, bitmap2)
  IN  [err |-> err, clientCalled |-> err = "none"]

\* createCategory(label, positives, negatives): negatives is None when
\* omitted, and then made the empty list.
createCategory(positives, negatives) ==
  LET negs == IF negatives.type = "NoneType"
              THEN [type |-> "list", items |-> <<>>]
              ELSE negatives
      err  == CheckLists(positives, negs)
  IN  [err |-> err, clientCalled |-> err = "none"]

Compare ==
  /\ Idle
  /\ self.constructed
  /\ \E bitmap1 \in PyValues, bitmap2 \in PyValues :
       LET r == compare(bitmap1, bitmap2)
       IN  call' = [op |-> "compare", err |-> r.err,
                    bitmap1 |-> bitmap1, bitmap2 |-> bitmap2,
                    clientCalled |-> r.clientCalled]
  /\ UNCHANGED <<self, heap>>

CreateCategory ==
  /\ Idle
  /\ self.constructed
  /\ \E positives \in PyValues, negatives \in PyValues :
       LET r == createCategory(positives, negatives)
       IN  call' = [op |-> "createCategory", err |-> r.err,
                    positives |-> positives, negatives |-> negatives,
                    clientCalled |-> r.clientCalled]
  /\ UNCHANGED <<self, heap>>

ApiNext == __init__ \/ Compare \/ CreateCategory \/ Return

SpecApi == Init /\ [][ApiNext]_vars

\* ------------------------------------------------- the whole encoder

Next ==
  \/ __init__
  \/ GetWindowEncoding
  \/ Encode
  \/ EncodeNonString
  \/ ClientGetBitmap
  \/ FinishEncoding
  \/ Compare
  \/ CreateCategory
  \/ Return

Spec == Init /\ [][Next]_vars

\* =====================================================================
\* Properties of getWindowEncoding
\* =====================================================================

WindowCallDone == call.op = "getWindowEncoding" /\ call.err = "none"

\* The bitmap of token m (0-based) of the last call, from the service.
BitmapAt(m) == TermPositions(call.tokens[m + 1])

\* The union of the bitmaps of tokens k..i.
UnionOver(k, i) == UNION {BitmapAt(m) : m \in k..i}

\* With tokens j+1..i merged, token j fits the budget:
\* (|window| / n) + (|bitmap[j]| / n) <= unionSparsity.
Fits(j, i) ==
  (Cardinality(UnionOver(j + 1, i)) + Cardinality(BitmapAt(j)))
      * self.unionSparsity[2]
    <= self.unionSparsity[1] * self.n

\* The smallest k such that every token of k..i-1 fits when it is reached.
FirstMerged(i) ==
  CHOOSE k \in 0..i :
    /\ \A j \in k..(i - 1) : Fits(j, i)
    /\ \A k2 \in 0..(k - 1) : \E j \in k2..(i - 1) : ~Fits(j, i)

\* The windows of the last call that pass the filter, by token index.
EmittedWindows ==
  {w \in Range(call.windows) :
     Cardinality(w.bitmap) * call.minSparsity[2]
       > call.minSparsity[1] * self.n}

\* C2: the token span of every emitted window is tokens[jLast..i], jLast
\* the smallest index whose bitmap was merged into the window (i when none
\* was); the index at which the walk stopped is not part of the span.
C2_SpanIsMergedTokens ==
  WindowCallDone =>
    \A w \in EmittedWindows :
      LET jLast == CHOOSE m \in w.merged \cup {w.i} :
                     \A m2 \in w.merged \cup {w.i} : m <= m2
      IN  w.text = [k \in 1..(w.i - jLast + 1) |-> call.tokens[jLast + k]]

\* C3: the window of token i is the union of bitmap[i] with the bitmaps of
\* i-1, ..., k, where the walk goes backward and merges bitmap[j] exactly
\* when every index between j and i was merged and the sum of the window's
\* and bitmap[j]'s sparsities does not exceed unionSparsity; nothing before
\* the first index that fails the test, and nothing after i, is merged.
C3_WindowIsBackwardUnion ==
  WindowCallDone =>
    \A idx \in 1..Len(call.windows) :
      LET w == call.windows[idx]
          i == idx - 1
          k == FirstMerged(i)
      IN  /\ w.i = i
          /\ w.merged = k..(i - 1)
          /\ w.bitmap = UnionOver(k, i)
          /\ \A m \in w.merged : m < i

\* A walk merged a predecessor and then stopped before the first token.
C3_Witness ==
  /\ WindowCallDone
  /\ \E w \in Range(call.windows) :
       /\ w.merged # {}
       /\ \A m \in w.merged : m > 0
       /\ w.bitmap # BitmapAt(w.i)

\* C4 as stated: every emitted window is within the sparsity budget,
\* |window| / n <= unionSparsity.
C4_EmittedWithinBudget ==
  WindowCallDone =>
    \A k \in 1..Len(call.windowBitmaps) :
      Cardinality(call.windowBitmaps[k].bitmap) * self.unionSparsity[2]
        <= self.unionSparsity[1] * self.n

\* C4 amended: every emitted window is within the sparsity budget or is
\* the bitmap of its own token alone, with no predecessor merged.
C4_EmittedWithinBudgetOrOwnBitmap ==
  WindowCallDone =>
    \A k \in 1..Len(call.windowBitmaps) :
      LET e == call.windowBitmaps[k]
      IN  \/ Cardinality(e.bitmap) * self.unionSparsity[2]
               <= self.unionSparsity[1] * self.n
          \/ e.bitmap = TermPositions(e.text[Len(e.text)])

\* An emitted window that merged a predecessor and grew by it, in a call
\* that also emitted a window over the budget.
C4_Witness ==
  /\ WindowCallDone
  /\ \E k \in 1..Len(call.windowBitmaps) :
       LET e == call.windowBitmaps[k]
       IN  /\ e.bitmap # TermPositions(e.text[Len(e.text)])
           /\ Cardinality(e.bitmap) * self.unionSparsity[2]
                <= self.unionSparsity[1] * self.n
  /\ \E k \in 1..Len(call.windowBitmaps) :
       Cardinality(call.windowBitmaps[k].bitmap) * self.unionSparsity[2]
         > self.unionSparsity[1] * self.n

\* C10: a window is emitted for token i exactly when its final sparsity is
\* strictly greater than minSparsity; the emitted windows are in increasing
\* order of i and as many as the indices that pass the filter.
C10_EmittedIffDenser ==
  WindowCallDone =>
    LET passing == {w.i : w \in EmittedWindows}
        order   == SortedSeq(passing)
    IN  /\ Len(call.windowBitmaps) = Cardinality(passing)
        /\ \A k \in 1..Len(order) :
             LET w == call.windows[order[k] + 1]
                 e == call.windowBitmaps[k]
             IN  /\ e.bitmap = w.bitmap
                 /\ e.text = w.text
                 /\ e.sparsity = <<Cardinality(w.bitmap), self.n>>

\* With minSparsity 0.0, a token with an empty window produced no entry and
\* the list is shorter than the token sequence, though not empty.
C10_Witness ==
  /\ WindowCallDone
  /\ call.minSparsity = <<0, 1>>
  /\ \E w \in Range(call.windows) : w.bitmap = {}
  /\ Len(call.windowBitmaps) < Len(call.tokens)
  /\ Len(call.windowBitmaps) > 0

\* =====================================================================
\* Properties of encode and finishEncoding
\* =====================================================================

Scaling == ~RatEq(self.retinaScaling, <<1, 1>>)

\* C1: when the primary strategy of encode(text) fails with
\* UnsuccessfulEncodingError and the substitute union encoding fails with
\* it too, encode returns None to its caller and raises nothing.
C1_DoubleFailureReturnsNone ==
  (call.op = "encode" /\ call.primaryFailed /\ call.substituteFailed)
    => (call.err = "none" /\ call.result = None)

\* A call of encode or finishEncoding that returned a record.
RecordReturned ==
  /\ call.op \in {"encode", "finishEncoding"}
  /\ call.err = "none"

\* The record handed to finishEncoding in the last call, as it was then.
RawRecord == IF call.op = "encode" THEN call.raw ELSE call.before

\* C7: every record returned by finishEncoding (and so by encode) has
\* sparsity = |positions| / (width * height) of its own positions, width
\* and height; when the scale factor is not 1 these are the rescaled
\* positions and the scaled grid's dimensions.
C7_SparsityOfReturnedRecord ==
  RecordReturned =>
    LET d == heap[call.result]
    IN  /\ d.width * d.height > 0
        /\ d.sparsity[1] * (d.width * d.height)
             = Cardinality(d.positions) * d.sparsity[2]
        /\ Scaling =>
             /\ d.width = self.width
             /\ d.height = self.height
             /\ d.positions
                  = scaleEncoding(RawRecord.positions,
                                  self.retinaScaling).positions

\* encode returned a record whose positions and grid were rescaled, with a
\* sparsity other than the one the raw record had.
C7_Witness ==
  /\ call.op = "encode"
  /\ call.err = "none"
  /\ Scaling
  /\ heap[call.result].positions # call.raw.positions
  /\ heap[call.result].width # call.raw.width
  /\ ~RatEq(heap[call.result].sparsity, Sparsity(call.raw))

\* C9 as stated: finishEncoding leaves the record passed in as it was
\* (positions, width, height, sparsity) and returns a fresh record.
C9_InputUntouchedResultFresh ==
  (call.op = "finishEncoding" /\ call.err = "none")
    => /\ heap[call.encoding] = call.before
       /\ call.result # call.encoding

\* C9 amended: finishEncoding writes the record passed in and returns that
\* same record.  With a scale factor of 1 its positions, width and height
\* stay and only its sparsity is recomputed, so that assembling a record
\* again yields the same result; with another scale factor its positions
\* are rescaled and its dimensions replaced on every call.
C9_InputUpdatedInPlace ==
  (call.op = "finishEncoding" /\ call.err = "none")
    => /\ call.result = call.encoding
       /\ ~Scaling =>
            /\ heap[call.encoding]
                 = [call.before EXCEPT !.sparsity = Sparsity(call.before)]
            /\ RatEq(call.before.sparsity, Sparsity(call.before))
                 => RatEq(heap[call.encoding].sparsity, call.before.sparsity)
       /\ Scaling =>
            heap[call.encoding]
              = [sparsity  |-> <<Cardinality(heap[call.encoding].positions),
                                 self.width * self.height>>,
                 width     |-> self.width,
                 height    |-> self.height,
                 positions |-> scaleEncoding(call.before.positions,
                                             self.retinaScaling).positions]

\* finishEncoding returned, and the record passed in no longer has the
\* positions, the width and the sparsity it had.
C9_Witness ==
  /\ call.op = "finishEncoding"
  /\ call.err = "none"
  /\ call.encoding # None
  /\ heap[call.encoding].positions # call.before.positions
  /\ heap[call.encoding].width # call.before.width
  /\ heap[call.encoding].sparsity # call.before.sparsity

\* =====================================================================
\* Properties of the constructor, compare and createCategory
\* =====================================================================

\* s is in the interval (0, 1].
InUnitInterval(s) == RatLess(<<0, 1>>, s) /\ RatLeq(s, <<1, 1>>)

\* C6: configuring the encoder with a scale factor outside (0, 1] fails
\* with an error and produces no encoder, so none whose grid has width,
\* height or n equal to 0.
C6_ScaleOutsideUnitIntervalFails ==
  (call.op = "__init__" /\ ~InUnitInterval(call.retinaScaling))
    => /\ call.err # "none"
       /\ ~(self.constructed
              /\ (self.width = 0 \/ self.height = 0 \/ self.n = 0))

\* C5: compare fails with a TypeError, without calling the client,
\* whenever at least one of its two arguments is not a list.
C5_CompareRejectsNonLists ==
  (call.op = "compare"
     /\ (call.bitmap1.type # "list" \/ call.bitmap2.type # "list"))
    => (call.err = "TypeError" /\ ~call.clientCalled)

\* C8: createCategory fails with a TypeError, without calling the client,
\* whenever positives is not a list or negatives is supplied and is not a
\* list; a non-list positives is rejected when negatives is omitted.
C8_CreateCategoryRejectsNonLists ==
  (call.op = "createCategory"
     /\ \/ call.positives.type # "list"
        \/ call.negatives.type \notin {"list", "NoneType"})
    => (call.err = "TypeError" /\ ~call.clientCalled)

====
